---- MODULE Spec2Model ----
(***************************************************************************)
(* Model of scripts/fetch_blobs.py: a two-phase partial fetch.             *)
(*   phase 1  fetch_commit: the commit and its trees, filter blob:none,    *)
(*            with a fallback to SubprocessGitClient when the first fetch  *)
(*            raises;                                                      *)
(*   walk     collect_missing_blobs: the recursive walk of the trees;      *)
(*   phase 2  fetch_blobs: one fetch of the blobs the walk recorded.       *)
(* The Git client and the object store are dulwich's; a fetch is modelled  *)
(* by its contract: it raises, or the store holds its want-list afterwards *)
(* (and whatever else the server chose to send).                           *)
(***************************************************************************)
EXTENDS Integers, Sequences, FiniteSets, TLC

VARIABLES
    trees,          \* the content of the tree objects: tree id -> its entries
    pc,             \* the position of main
    object_store,   \* repo.object_store: the ids of the objects held locally
    calls,          \* the fetch calls issued so far, in order
    missing_blobs,  \* main's missing_blobs (<<>> until the walk returns)
    raised,         \* the exception that ended the run, "None" when none has
    printed,        \* the lines printed by main
    again           \* the result of a second collect_missing_blobs call

vars == <<trees, pc, object_store, calls, missing_blobs, raised, printed, again>>

(***************************************************************************)
(* Bounds and the universe of objects.                                     *)
(***************************************************************************)
\* The longest entry list of a tree.
MaxEntries == 2

\* args.commit, and commit.tree, the root tree it names.
commit_sha == "C"
root_tree == "T1"
TreeIds == {"T1", "T2"}
BlobIds == {"B1", "B2"}
\* The commit a gitlink (submodule) entry names: an object of another repository.
GitlinkId == "G"

\* The bit collect_missing_blobs tests in entry.mode: 0o40000.
DirBit == 16384

\* Git's entry modes: directory 0o40000, regular file 0o100644,
\* symbolic link 0o120000, gitlink 0o160000.
Modes == [dir |-> 16384, file |-> 33188, symlink |-> 40960, gitlink |-> 57344]

\* Tree ids are content hashes, so a tree names only trees built before it:
\* T1 may hold T2, never the reverse.
SubTreesOf(t) == IF t = "T1" THEN {"T2"} ELSE {}

EntriesFor(t) ==
    {[mode |-> Modes.dir, sha |-> s] : s \in SubTreesOf(t)}
        \cup {[mode |-> Modes.file, sha |-> "B1"],
              [mode |-> Modes.symlink, sha |-> "B2"],
              [mode |-> Modes.gitlink, sha |-> GitlinkId]}

SeqsUpTo(S, n) == UNION {[1..k -> S] : k \in 0..n}

TreeGraphs ==
    {g \in [TreeIds -> SeqsUpTo(UNION {EntriesFor(t) : t \in TreeIds}, MaxEntries)] :
        \A t \in TreeIds : \A i \in 1..Len(g[t]) : g[t][i] \in EntriesFor(t)}

Range(s) == {s[i] : i \in 1..Len(s)}

(***************************************************************************)
(* entry.mode & 0o40000                                                    *)
(***************************************************************************)
RECURSIVE BitAnd(_, _)
BitAnd(a, b) ==
    IF a = 0 \/ b = 0 THEN 0
    ELSE (a % 2) * (b % 2) + 2 * BitAnd(a \div 2, b \div 2)

is_dir(entry) == BitAnd(entry.mode, DirBit) # 0

(***************************************************************************)
(* collect_missing_blobs(repo, tree_sha)                                   *)
(* The result is [raised, missing]: the exception that left the call       *)
(* ("None" when it returned) and the list it returned.                     *)
(***************************************************************************)
Returned(missing) == [raised |-> "None", missing |-> missing]
Raise(exc) == [raised |-> exc, missing |-> <<>>]

RECURSIVE collect_missing_blobs(_, _)
RECURSIVE CollectEntries(_, _, _, _)

RECURSIVE CollectEntriesSkipDirs(_, _, _, _)
RECURSIVE CollectEntriesNoCheck(_, _, _, _)
RECURSIVE CollectEntriesSwallow(_, _, _, _)
RECURSIVE CollectEntriesParentFirst(_, _, _, _)

\* The loop without its recursion: sub-directories are passed over.
CollectEntriesSkipDirs(st, entries, i, missing) ==
    IF i > Len(entries) THEN Returned(missing)
    ELSE LET entry == entries[i] IN
         IF is_dir(entry) \/ entry.sha \in st
         THEN CollectEntriesSkipDirs(st, entries, i + 1, missing)
         ELSE CollectEntriesSkipDirs(st, entries, i + 1, Append(missing, entry.sha))

\* The loop without `if entry.sha not in repo.object_store`.
CollectEntriesNoCheck(st, entries, i, missing) ==
    IF i > Len(entries) THEN Returned(missing)
    ELSE LET entry == entries[i] IN
         IF is_dir(entry)
         THEN LET sub == collect_missing_blobs(st, entry.sha) IN
              IF sub.raised # "None" THEN sub
              ELSE CollectEntriesNoCheck(st, entries, i + 1, missing \o sub.missing)
         ELSE CollectEntriesNoCheck(st, entries, i + 1, Append(missing, entry.sha))

\* The loop with the recursive call wrapped in try/except: continue.
CollectEntriesSwallow(st, entries, i, missing) ==
    IF i > Len(entries) THEN Returned(missing)
    ELSE LET entry == entries[i] IN
         IF is_dir(entry)
         THEN LET sub == collect_missing_blobs(st, entry.sha) IN
              CollectEntriesSwallow(st, entries, i + 1, missing \o sub.missing)
         ELSE IF entry.sha \notin st
              THEN CollectEntriesSwallow(st, entries, i + 1, Append(missing, entry.sha))
              ELSE CollectEntriesSwallow(st, entries, i + 1, missing)

\* The loop with the sub-trees' results added after the tree's own blobs.
CollectEntriesParentFirst(st, entries, i, missing) ==
    IF i > Len(entries) THEN Returned(missing)
    ELSE LET entry == entries[i] IN
         IF is_dir(entry)
         THEN LET sub == collect_missing_blobs(st, entry.sha)
                  rest == CollectEntriesParentFirst(st, entries, i + 1, missing)
              IN  IF sub.raised # "None" THEN sub
                  ELSE IF rest.raised # "None" THEN rest
                  ELSE Returned(rest.missing \o sub.missing)
         ELSE IF entry.sha \notin st
              THEN CollectEntriesParentFirst(st, entries, i + 1, Append(missing, entry.sha))
              ELSE CollectEntriesParentFirst(st, entries, i + 1, missing)

\* The for loop of collect_missing_blobs from entry i on, `missing` so far.
CollectEntries(st, entries, i, missing) ==
    IF i > Len(entries) THEN Returned(missing)
    ELSE LET entry == entries[i] IN
         IF is_dir(entry)
         THEN LET sub == collect_missing_blobs(st, entry.sha) IN
              IF sub.raised # "None" THEN sub
              ELSE CollectEntries(st, entries, i + 1, missing \o sub.missing)
         ELSE IF entry.sha \notin st
              THEN CollectEntries(st, entries, i + 1, Append(missing, entry.sha))
              ELSE CollectEntries(st, entries, i + 1, missing)

collect_missing_blobs(st, tree_sha) ==
    IF tree_sha \notin st THEN Raise("KeyError")
    ELSE IF tree_sha \notin TreeIds THEN Raise("AttributeError")
    ELSE CollectEntries(st, trees[tree_sha], 1, <<>>)

\* A walk that marks what it recorded by adding it to the store.
StoreAfterWalkMarking(st, result) == st \cup Range(result.missing)

\* The walk only reads the store (repo[tree_sha], `in repo.object_store`).
StoreAfterWalk(st, result) == st

(***************************************************************************)
(* The fetch requests                                                      *)
(***************************************************************************)
\* wants of fetch_commit: [bytes.fromhex(commit_sha)]
wants == <<commit_sha>>

PrimaryRequest ==
    [client |-> "client", path |-> "path", determine_wants |-> wants,
     filter_spec |-> "blob:none", depth |-> "1", protocol_version |-> "2"]

\* The fallback request without its filter.
FallbackRequestNoFilter ==
    [client |-> "sp_client", path |-> "repo_url", determine_wants |-> wants,
     filter_spec |-> "None", depth |-> "1", protocol_version |-> "2"]

FallbackRequest ==
    [client |-> "sp_client", path |-> "repo_url", determine_wants |-> wants,
     filter_spec |-> "blob:none", depth |-> "1", protocol_version |-> "2"]

\* The blob request sent on whichever client the commit fetch succeeded on.
BlobRequestReuse(blobs) ==
    LET last == calls[Len(calls)].request IN
    [client |-> last.client, path |-> last.path, determine_wants |-> blobs,
     filter_spec |-> "None", depth |-> "None", protocol_version |-> "2"]

BlobRequest(blobs) ==
    [client |-> "client", path |-> "path", determine_wants |-> blobs,
     filter_spec |-> "None", depth |-> "None", protocol_version |-> "2"]

Call(request, outcome) == [request |-> request, outcome |-> outcome]

\* What a fetch of the commit that returns may leave in the store: the
\* commit, and the trees and blobs the server chose to send.
CommitFetchStores ==
    {{commit_sha} \cup ts \cup bs : ts \in SUBSET TreeIds, bs \in SUBSET BlobIds}

\* The summary counting each identifier once.
SummaryDeduplicated(blobs) == [fetched |-> Cardinality(Range(blobs)), into |-> "tmpdir"]

\* print(f"Fetched {len(missing_blobs)} blobs into {tmpdir}")
Summary(blobs) == [fetched |-> Len(blobs), into |-> "tmpdir"]

NoResult == [raised |-> "NotCalled", missing |-> <<>>]

(***************************************************************************)
(* main                                                                    *)
(***************************************************************************)
Init ==
    /\ trees \in TreeGraphs
    /\ pc = "start"
    /\ object_store = {}
    /\ calls = <<>>
    /\ missing_blobs = <<>>
    /\ raised = "None"
    /\ printed = <<>>
    /\ again = NoResult

\* os.makedirs and Repo.init_bare: the store is created, or the call raises.
init_bare ==
    /\ pc = "start"
    /\ \/ /\ pc' = "fetch"
          /\ raised' = raised
       \/ /\ pc' = "failed"
          /\ raised' = "OSError"
    /\ UNCHANGED <<trees, object_store, calls, missing_blobs, printed, again>>

\* client.fetch in the try block of fetch_commit.
fetch_commit_try ==
    /\ pc = "fetch"
    /\ \/ /\ \E st \in CommitFetchStores : object_store' = object_store \cup st
          /\ calls' = Append(calls, Call(PrimaryRequest, "returned"))
          /\ pc' = "walk"
       \/ /\ object_store' = object_store
          /\ calls' = Append(calls, Call(PrimaryRequest, "raised"))
          /\ pc' = "except"
    /\ UNCHANGED <<trees, missing_blobs, raised, printed, again>>

\* sp_client.fetch in the except block of fetch_commit.
fetch_commit_except ==
    /\ pc = "except"
    /\ \/ /\ \E st \in CommitFetchStores : object_store' = object_store \cup st
          /\ calls' = Append(calls, Call(FallbackRequest, "returned"))
          /\ pc' = "walk"
          /\ raised' = raised
       \/ /\ object_store' = object_store
          /\ calls' = Append(calls, Call(FallbackRequest, "raised"))
          /\ pc' = "failed"
          /\ raised' = "FetchError"
    /\ UNCHANGED <<trees, missing_blobs, printed, again>>

\* commit = repo[...]; missing_blobs = collect_missing_blobs(repo, commit.tree)
main_collect ==
    /\ pc = "walk"
    /\ LET result == collect_missing_blobs(object_store, root_tree) IN
       /\ object_store' = StoreAfterWalk(object_store, result)
       /\ IF result.raised = "None"
          THEN /\ missing_blobs' = result.missing
               /\ pc' = "fetch_blobs"
               /\ raised' = raised
          ELSE /\ missing_blobs' = missing_blobs
               /\ pc' = "failed"
               /\ raised' = result.raised
    /\ UNCHANGED <<trees, calls, printed, again>>

\* fetch_blobs that computes the missing blobs again when its fetch raises.
fetch_blobs_retry ==
    /\ pc = "fetch_blobs"
    /\ IF missing_blobs = <<>>
       THEN /\ pc' = "done"
            /\ printed' = Append(printed, Summary(missing_blobs))
            /\ UNCHANGED <<object_store, calls, raised>>
       ELSE \/ /\ object_store' = object_store \cup Range(missing_blobs)
               /\ calls' = Append(calls, Call(BlobRequest(missing_blobs), "returned"))
               /\ pc' = "done"
               /\ printed' = Append(printed, Summary(missing_blobs))
               /\ raised' = raised
            \/ /\ calls' = Append(calls, Call(BlobRequest(missing_blobs), "raised"))
               /\ pc' = IF Len(calls) < 3 THEN "walk" ELSE "failed"
               /\ raised' = IF Len(calls) < 3 THEN raised ELSE "FetchError"
               /\ UNCHANGED <<object_store, printed>>
    /\ UNCHANGED <<trees, missing_blobs, again>>

\* fetch_blobs without `if not blobs: return`.
fetch_blobs_no_guard ==
    /\ pc = "fetch_blobs"
    /\ \/ /\ object_store' = object_store \cup Range(missing_blobs)
          /\ calls' = Append(calls, Call(BlobRequest(missing_blobs), "returned"))
          /\ pc' = "done"
          /\ printed' = Append(printed, Summary(missing_blobs))
          /\ raised' = raised
       \/ /\ calls' = Append(calls, Call(BlobRequest(missing_blobs), "raised"))
          /\ pc' = "failed"
          /\ raised' = "FetchError"
          /\ UNCHANGED <<object_store, printed>>
    /\ UNCHANGED <<trees, missing_blobs, again>>

\* fetch_blobs(client, path, repo, missing_blobs) and the print after it.
fetch_blobs ==
    /\ pc = "fetch_blobs"
    /\ IF missing_blobs = <<>>
       THEN /\ pc' = "done"
            /\ printed' = Append(printed, Summary(missing_blobs))
            /\ UNCHANGED <<object_store, calls, raised>>
       ELSE \/ /\ object_store' = object_store \cup Range(missing_blobs)
               /\ calls' = Append(calls, Call(BlobRequest(missing_blobs), "returned"))
               /\ pc' = "done"
               /\ printed' = Append(printed, Summary(missing_blobs))
               /\ raised' = raised
            \/ /\ calls' = Append(calls, Call(BlobRequest(missing_blobs), "raised"))
               /\ pc' = "failed"
               /\ raised' = "FetchError"
               /\ UNCHANGED <<object_store, printed>>
    /\ UNCHANGED <<trees, missing_blobs, again>>

Next ==
    \/ init_bare
    \/ fetch_commit_try
    \/ fetch_commit_except
    \/ main_collect
    \/ fetch_blobs

Spec == Init /\ [][Next]_vars

(***************************************************************************)
(* collect_missing_blobs on its own: any store, any tree graph, called     *)
(* twice in a row with no fetch in between.                                *)
(***************************************************************************)
InitWalk ==
    /\ trees \in TreeGraphs
    /\ pc = "collect"
    /\ object_store \in SUBSET (TreeIds \cup BlobIds \cup {GitlinkId})
    /\ calls = <<>>
    /\ missing_blobs = <<>>
    /\ raised = "None"
    /\ printed = <<>>
    /\ again = NoResult

collect_first ==
    /\ pc = "collect"
    /\ LET result == collect_missing_blobs(object_store, root_tree) IN
       /\ object_store' = StoreAfterWalk(object_store, result)
       /\ missing_blobs' = result.missing
       /\ raised' = result.raised
    /\ pc' = "collect_again"
    /\ UNCHANGED <<trees, calls, printed, again>>

collect_second ==
    /\ pc = "collect_again"
    /\ LET result == collect_missing_blobs(object_store, root_tree) IN
       /\ object_store' = StoreAfterWalk(object_store, result)
       /\ again' = result
    /\ pc' = "collected"
    /\ UNCHANGED <<trees, calls, missing_blobs, raised, printed>>

NextWalk ==
    \/ collect_first
    \/ collect_second

SpecWalk == InitWalk /\ [][NextWalk]_vars

(***************************************************************************)
(* What the claims speak of, stated on the tree graph itself.              *)
(***************************************************************************)
DirEntries(t) == {e \in Range(trees[t]) : e.mode = Modes.dir}

\* The trees of the commit's closure: the root tree and the trees that
\* directory entries lead to from it.
RECURSIVE TreeClosure(_)
TreeClosure(S) ==
    LET next == S \cup {e.sha : e \in UNION {DirEntries(t) : t \in S}} IN
    IF next = S THEN S ELSE TreeClosure(next)

\* The blobs referenced by a non-directory entry of a tree of the closure.
ClosureBlobs ==
    {e.sha : e \in UNION {Range(trees[t]) : t \in TreeClosure({root_tree})}} \cap BlobIds

\* The trees the walk comes to: those that directory entries lead to from
\* the root tree through trees the store holds.
RECURSIVE TreesReached(_, _)
TreesReached(st, S) ==
    LET next == S \cup {e.sha : e \in UNION {DirEntries(t) : t \in S \cap st}} IN
    IF next = S THEN S ELSE TreesReached(st, next)

AbsentTreeReached(st) == \E t \in TreesReached(st, {root_tree}) : t \notin st

\* The fetch calls of phase 1 are the first, and the second when the first raised.
Phase1Calls == IF calls # <<>> /\ calls[1].outcome = "raised" THEN 2 ELSE 1
BlobCalls == {i \in 1..Len(calls) : i > Phase1Calls}
SubprocessCalls == {i \in 1..Len(calls) : calls[i].request.client = "sp_client"}

\* The states of the specification's state machine.
State ==
    CASE pc = "start" -> "Uninitialized"
      [] pc \in {"fetch", "except"} -> "StoreCreated"
      [] pc = "walk" -> "CommitFetched"
      [] pc = "fetch_blobs" -> "BlobsIdentified"
      [] pc = "done" -> "BlobsFetched"
      [] pc = "failed" -> "Failed"

(***************************************************************************)
(* C1  Completeness: when main reaches its successful end, every blob      *)
(* referenced by a non-directory entry of a tree reachable from the        *)
(* commit's root tree is in the object store.                              *)
(***************************************************************************)
C1_Completeness == pc = "done" => ClosureBlobs \subseteq object_store

\* A run that ended well after fetching both blobs, one of them referenced
\* from the sub-tree only.
C1_Witness ==
    /\ pc = "done"
    /\ BlobCalls # {}
    /\ "T2" \in TreeClosure({root_tree})
    /\ ClosureBlobs = BlobIds
    /\ "B2" \notin {e.sha : e \in Range(trees[root_tree])}
    /\ Range(missing_blobs) = BlobIds

(***************************************************************************)
(* C2  Fallback activation: when the first fetch of fetch_commit raises,   *)
(* exactly one fetch follows on the subprocess client, with the want-list, *)
(* filter, depth and protocol version of the first and the original URL,   *)
(* before any error reaches the caller; when the first fetch returns there *)
(* is no subprocess fetch; when the fallback raises too the run fails with *)
(* no further fetch.                                                       *)
(***************************************************************************)
C2_Fallback ==
    /\ Cardinality(SubprocessCalls) <= 1
    /\ pc = "except" => raised = "None" /\ Len(calls) = 1
    /\ (calls # <<>> /\ calls[1].outcome = "raised" /\ pc # "except") =>
          /\ Len(calls) >= 2
          /\ calls[1].request.determine_wants = <<commit_sha>>
          /\ calls[1].request.filter_spec = "blob:none"
          /\ calls[1].request.depth = "1"
          /\ calls[1].request.protocol_version = "2"
          /\ calls[2].request =
                [calls[1].request EXCEPT !.client = "sp_client", !.path = "repo_url"]
    /\ (calls # <<>> /\ calls[1].outcome = "returned") => SubprocessCalls = {}
    /\ (Len(calls) >= 2 /\ calls[2].outcome = "raised" /\ 2 \in SubprocessCalls) =>
          Len(calls) = 2 /\ pc = "failed" /\ raised = "FetchError"

\* The first fetch raised, and the fallback was issued and raised as well.
C2_Witness ==
    /\ pc = "failed"
    /\ Len(calls) = 2
    /\ calls[1].outcome = "raised"
    /\ calls[2].request.client = "sp_client"
    /\ calls[2].outcome = "raised"

(***************************************************************************)
(* C3  Minimality: when fetch_blobs is about to issue the second fetch,    *)
(* no identifier of the missing-blob list is in the object store.          *)
(***************************************************************************)
C3_Minimality ==
    pc = "fetch_blobs" => \A i \in 1..Len(missing_blobs) : missing_blobs[i] \notin object_store

\* Before the second fetch, with one blob of the closure recorded and
\* another left out because the store holds it.
C3_Witness ==
    /\ pc = "fetch_blobs"
    /\ missing_blobs # <<>>
    /\ ClosureBlobs \cap object_store # {}

(***************************************************************************)
(* C5  Phase 2 has no fallback: the blob fetch is issued at most once, on  *)
(* the URL-resolved client, with the missing-blob list as its want-list,   *)
(* no filter, no depth; when it raises the run fails and no subprocess     *)
(* fetch follows, also when phase 1 went through the fallback.             *)
(***************************************************************************)
C5_NoBlobFallback ==
    /\ Cardinality(BlobCalls) <= 1
    /\ \A i \in BlobCalls :
          /\ calls[i].request.client = "client"
          /\ calls[i].request.path = "path"
          /\ calls[i].request.determine_wants = missing_blobs
          /\ calls[i].request.filter_spec = "None"
          /\ calls[i].request.depth = "None"
          /\ calls[i].request.protocol_version = "2"
          /\ calls[i].outcome = "raised" =>
                i = Len(calls) /\ pc = "failed" /\ raised = "FetchError"

\* Phase 1 went through the fallback, and the blob fetch raised.
C5_Witness ==
    /\ Len(calls) = 3
    /\ calls[2].request.client = "sp_client"
    /\ calls[2].outcome = "returned"
    /\ calls[3].outcome = "raised"
    /\ pc = "failed"

(***************************************************************************)
(* C7  Success summary: the summary line is printed exactly when the run   *)
(* ends in success, once, and its count is the length of the missing-blob  *)
(* list, duplicates counted: the length of the want-list of the second     *)
(* fetch, and 0 when that fetch was skipped.                               *)
(***************************************************************************)
C7_Summary ==
    /\ printed # <<>> <=> pc = "done"
    /\ Len(printed) <= 1
    /\ pc = "done" =>
          /\ printed[1].fetched = Len(missing_blobs)
          /\ \A i \in BlobCalls : printed[1].fetched = Len(calls[i].request.determine_wants)
          /\ BlobCalls = {} => printed[1].fetched = 0

\* A successful run whose list names one blob twice.
C7_Witness ==
    /\ pc = "done"
    /\ printed[1].fetched = 2
    /\ Cardinality(Range(missing_blobs)) = 1

(***************************************************************************)
(* C4  No-op on full closure.  As stated: when the store holds every blob  *)
(* of the commit's closure before phase 2, the walk returns the empty list,*)
(* fetch_blobs issues no fetch, and the run ends in success.               *)
(***************************************************************************)
C4_Original ==
    /\ [][(pc = "walk" /\ ClosureBlobs \subseteq object_store) =>
             (pc' = "fetch_blobs" /\ missing_blobs' = <<>>)]_vars
    /\ [][(pc = "fetch_blobs" /\ ClosureBlobs \subseteq object_store) =>
             (missing_blobs = <<>> /\ calls' = calls /\ pc' = "done" /\ raised' = "None")]_vars

\* C4 as amended: the same, for the runs in which collect_missing_blobs
\* returns (it raises when a tree it comes to is not in the store).
C4_NoOpWhenWalkReturns ==
    /\ [][(pc = "walk" /\ ClosureBlobs \subseteq object_store /\ raised' = "None") =>
             (pc' = "fetch_blobs" /\ missing_blobs' = <<>>)]_vars
    /\ [][(pc = "fetch_blobs" /\ ClosureBlobs \subseteq object_store) =>
             (missing_blobs = <<>> /\ calls' = calls /\ pc' = "done" /\ raised' = "None")]_vars

\* A successful run with one fetch call only, although the closure has
\* blobs: the commit fetch had brought them all.
C4_Witness ==
    /\ pc = "done"
    /\ Len(calls) = 1
    /\ ClosureBlobs = BlobIds
    /\ ClosureBlobs \subseteq object_store
    /\ printed = <<Summary(<<>>)>>

(***************************************************************************)
(* C6  The state machine.  As stated: the states follow one another in the *)
(* order Uninitialized, StoreCreated, CommitFetched, BlobsIdentified,      *)
(* BlobsFetched, and Failed is entered from StoreCreated, CommitFetched or *)
(* BlobsIdentified only, never from Uninitialized; BlobsFetched and Failed *)
(* are left by no transition.                                              *)
(***************************************************************************)
ForwardTransitions ==
    {<<"Uninitialized", "StoreCreated">>, <<"StoreCreated", "CommitFetched">>,
     <<"CommitFetched", "BlobsIdentified">>, <<"BlobsIdentified", "BlobsFetched">>}

FailureCause(from) ==
    CASE from = "StoreCreated" ->
            /\ Len(calls') = 2
            /\ calls'[1].outcome = "raised"
            /\ calls'[2].outcome = "raised"
      [] from = "CommitFetched" -> calls' = calls /\ raised' = "KeyError"
      [] from = "BlobsIdentified" ->
            /\ Len(calls') = Len(calls) + 1
            /\ calls'[Len(calls')] = Call(BlobRequest(missing_blobs), "raised")
      [] from = "Uninitialized" -> calls' = <<>> /\ raised' = "OSError"
      [] OTHER -> FALSE

C6_Original ==
    /\ State = "Uninitialized"
    /\ [][State' # State =>
             \/ <<State, State'>> \in ForwardTransitions
             \/ /\ State' = "Failed"
                /\ State \in {"StoreCreated", "CommitFetched", "BlobsIdentified"}
                /\ FailureCause(State)]_vars

\* C6 as amended: Failed is entered from Uninitialized too, when creating
\* the directory or the bare store raises.
C6_StateMachine ==
    /\ State = "Uninitialized"
    /\ [][State' # State =>
             \/ <<State, State'>> \in ForwardTransitions
             \/ /\ State' = "Failed"
                /\ State \in {"Uninitialized", "StoreCreated", "CommitFetched",
                              "BlobsIdentified"}
                /\ FailureCause(State)]_vars

\* The run failed while creating the store, before any fetch.
C6_Witness == pc = "failed" /\ raised = "OSError" /\ calls = <<>> /\ object_store = {}

(***************************************************************************)
(* C9  A missing tree object is fatal: when the root tree or a sub-tree    *)
(* the walk comes to is not in the store, the walk raises, main gets no    *)
(* list, the store is as it was, no blob fetch is issued and the run ends  *)
(* in Failed.                                                              *)
(***************************************************************************)
C9_MissingTreeFatal ==
    /\ [][(pc = "walk" /\ AbsentTreeReached(object_store)) =>
             /\ pc' = "failed"
             /\ raised' = "KeyError"
             /\ missing_blobs' = <<>>
             /\ object_store' = object_store
             /\ calls' = calls
             /\ printed' = <<>>]_vars
    /\ [](raised = "KeyError" => pc = "failed" /\ BlobCalls = {} /\ missing_blobs = <<>>)

\* The walk had recorded the root's first blob as missing when it came to
\* the absent sub-tree.
C9_Witness ==
    /\ pc = "failed"
    /\ raised = "KeyError"
    /\ root_tree \in object_store
    /\ "T2" \notin object_store
    /\ Len(trees[root_tree]) = 2
    /\ trees[root_tree][1].sha = "B1"
    /\ "B1" \notin object_store
    /\ trees[root_tree][2].sha = "T2"

(***************************************************************************)
(* The depth-first listing, stated on paths: a path is the list of entry   *)
(* positions from the root tree down to an entry; the listing takes the    *)
(* paths of the non-directory entries in lexicographic order.              *)
(***************************************************************************)
NoEntry == [mode |-> 0, sha |-> "none"]

Paths == UNION {[1..k -> 1..MaxEntries] : k \in 1..Cardinality(TreeIds)}

RECURSIVE EntryAt(_, _)
EntryAt(t, p) ==
    IF p[1] > Len(trees[t]) THEN NoEntry
    ELSE LET e == trees[t][p[1]] IN
         IF Len(p) = 1 THEN e
         ELSE IF e.mode = Modes.dir THEN EntryAt(e.sha, Tail(p))
         ELSE NoEntry

LeafPaths ==
    {p \in Paths : EntryAt(root_tree, p) # NoEntry /\ EntryAt(root_tree, p).mode # Modes.dir}

PathBefore(p, q) ==
    \E k \in 1..Len(p) :
        /\ k <= Len(q)
        /\ \A j \in 1..(k - 1) : p[j] = q[j]
        /\ p[k] < q[k]

RECURSIVE InPathOrder(_)
InPathOrder(S) ==
    IF S = {} THEN <<>>
    ELSE LET first == CHOOSE p \in S : \A q \in S \ {p} : PathBefore(p, q) IN
         <<first>> \o InPathOrder(S \ {first})

DepthFirstListing(st) ==
    LET order == InPathOrder(LeafPaths)
        shas == [i \in 1..Len(order) |-> EntryAt(root_tree, order[i]).sha]
        Absent(sha) == sha \notin st
    IN  SelectSeq(shas, Absent)

(***************************************************************************)
(* C8  Traversal order: the list collect_missing_blobs returns is the      *)
(* depth-first listing, in entry order, of the non-directory entries whose *)
(* identifier is not in the store, a sub-tree's entries standing where the *)
(* sub-tree's entry stands; an identifier referenced k times appears k     *)
(* times, and none in the store appears.                                   *)
(***************************************************************************)
C8_TraversalOrder ==
    (pc # "collect" /\ raised = "None") => missing_blobs = DepthFirstListing(object_store)

\* The sub-tree stands first in the root and its blob comes before the
\* root's own, and the root's blob is listed twice.
C8_Witness ==
    /\ pc = "collect_again"
    /\ raised = "None"
    /\ trees[root_tree] = <<[mode |-> Modes.dir, sha |-> "T2"],
                            [mode |-> Modes.file, sha |-> "B1"]>>
    /\ missing_blobs = <<"B2", "B2", "B1">>

====
